---- MODULE Spec2Model ----
(***************************************************************************)
(* Model of the validated command facade MilvusClientInit                  *)
(* (src/pyfiles/milvus_utils.py) and of its pydantic validators            *)
(* (src/validators/milvus_types.py).                                       *)
(*                                                                         *)
(* Every facade call is a sequence of steps, one per call into the         *)
(* pymilvus client; the steps of different callers interleave.  The remote *)
(* service is the set of collection names it holds (remote) and the number *)
(* of record batches stored per collection (rows).  Every client call may  *)
(* raise; the remote create/drop may also return without having taken      *)
(* effect, and the remote results may have the wrong shape.                *)
(*                                                                         *)
(* Python values are records [kind, val, items]: kind is the Python type,  *)
(* val a printable content, items the elements of a container.             *)
(***************************************************************************)
EXTENDS Integers, Sequences, FiniteSets, TLC

\* Facade calls each caller may start.
MaxCalls == 2

\* The client processes: each owns one MilvusClientInit.
Callers == {1, 2}

\* Collection names the remote service can hold, in the order it lists them.
NameOrder == <<"a", "b">>

Names == {NameOrder[k] : k \in 1..Len(NameOrder)}

-----------------------------------------------------------------------------
(* Python values *)

V(k, v, it) == [kind |-> k, val |-> v, items |-> it]

PyStr(s) == V("str", s, <<>>)

PyBytes(s) == V("bytes", s, <<>>)

PyInt(s) == V("int", s, <<>>)

PyBool(s) == V("bool", s, <<>>)

PyFloat(s) == V("float", s, <<>>)

PyNone == V("NoneType", "None", <<>>)

PyDict(s) == V("dict", s, <<>>)

Function(s) == V("Function", s, <<>>)

PyList(xs) == V("list", "", xs)

PyTuple(xs) == V("tuple", "", xs)

\* What a client call that raised "returns", and a failed pydantic coercion.
Raised == V("raised", "", <<>>)

Invalid == V("invalid", "", <<>>)

isinstance(v, k) == v.kind = k

\* all(isinstance(item, k) for item in v)
AllInstance(v, k) == \A j \in 1..Len(v.items) : isinstance(v.items[j], k)

\* x in seq, for a Python list held as a sequence
SeqHas(s, x) == \E j \in 1..Len(s) : s[j] = x

-----------------------------------------------------------------------------
(* pydantic: a BaseModel field is first coerced to its annotated type in   *)
(* lax mode, then handed to its field_validator (mode "after").  A failed  *)
(* coercion is a ValidationError; a validator raising is a TypeError.      *)
(* The facade keeps using the argument it was given, never the coerced     *)
(* value (test_full_text_search_bad_args sees the list query issued once,  *)
(* for the limit True, which the annotation int takes as 1).               *)

\* Numerals a str converts to under the annotation int.
Numerals == {"0", "1", "3"}

\* annotation str: str as is, bytes decoded
LaxStr(v) ==
  CASE v.kind = "str" -> v
    [] v.kind = "bytes" -> PyStr(v.val)
    [] OTHER -> Invalid

\* annotation int: int as is, bool as 0/1, a numeral str parsed
LaxInt(v) ==
  CASE v.kind = "int" -> v
    [] v.kind = "bool" -> PyInt(IF v.val = "True" THEN "1" ELSE "0")
    [] v.kind = "str" /\ v.val \in Numerals -> PyInt(v.val)
    [] OTHER -> Invalid

\* annotation dict
LaxDict(v) == IF v.kind = "dict" THEN v ELSE Invalid

\* annotation Any
LaxAny(v) == v

\* annotation str | None
LaxStrOrNone(v) == IF v.kind = "NoneType" THEN v ELSE LaxStr(v)

\* The coercion to the annotation named t.
Lax(t, v) ==
  CASE t = "str" -> LaxStr(v)
    [] t = "dict" -> LaxDict(v)
    [] t = "str | None" -> LaxStrOrNone(v)
    [] OTHER -> LaxAny(v)

\* annotation List[t]: a list or a tuple, every item coerced to t
LaxList(v, t) ==
  IF v.kind \in {"list", "tuple"}
  THEN LET its == [j \in 1..Len(v.items) |-> Lax(t, v.items[j])]
       IN  IF \E j \in 1..Len(its) : its[j] = Invalid THEN Invalid ELSE PyList(its)
  ELSE Invalid

\* One field: the coerced value cv and the verdict ok of its validator.
FieldErr(cv, ok) ==
  IF cv = Invalid THEN "ValidationError" ELSE IF ok THEN "ok" ELSE "TypeError"

\* A model: the verdicts of its fields.
ModelErr(errs) ==
  IF \E j \in 1..Len(errs) : errs[j] = "TypeError" THEN "TypeError"
  ELSE IF \E j \in 1..Len(errs) : errs[j] = "ValidationError" THEN "ValidationError"
  ELSE "ok"

validate_name(v) == isinstance(v, "str")

validate_field_params_list(v) == isinstance(v, "list") /\ AllInstance(v, "dict")

validate_func_list(v) == isinstance(v, "list") /\ AllInstance(v, "Function")

validate_index_params_list(v) == isinstance(v, "list") /\ AllInstance(v, "dict")

validate_data(v) == isinstance(v, "list") /\ AllInstance(v, "dict")

validate_ids(v) == isinstance(v, "list") /\ AllInstance(v, "str")

validate_query_list(v) == isinstance(v, "list") /\ AllInstance(v, "str")

validate_limit(v) == isinstance(v, "int")

validate_params(v) == isinstance(v, "dict")

validate_uri(v) == isinstance(v, "str")

InitClientParams(u) ==
  ModelErr(<<FieldErr(LaxStr(u), validate_uri(LaxStr(u)))>>)

InitClientResults(results) ==
  ModelErr(<<FieldErr(LaxAny(results), isinstance(results, "MilvusClient"))>>)

CreateFieldParams(schema, params) ==
  ModelErr(<<FieldErr(LaxAny(schema), isinstance(schema, "CollectionSchema")),
             FieldErr(LaxDict(params), validate_params(LaxDict(params)))>>)

CreateIndexParams(index_params, params) ==
  ModelErr(<<FieldErr(LaxAny(index_params), isinstance(index_params, "IndexParams")),
             FieldErr(LaxDict(params), validate_params(LaxDict(params)))>>)

ListCollectionsResults(results) ==
  LET v == LaxList(results, "str | None")
  IN  ModelErr(<<FieldErr(v, isinstance(v, "list") /\ AllInstance(v, "str"))>>)

CreateCollectionParams(name, fpl, fl, ipl) ==
  LET n == LaxStr(name)
      f == LaxList(fpl, "dict")
      g == LaxList(fl, "Any")
      x == LaxList(ipl, "dict")
  IN  ModelErr(<<FieldErr(n, validate_name(n)),
                 FieldErr(f, validate_field_params_list(f)),
                 FieldErr(g, validate_func_list(g)),
                 FieldErr(x, validate_index_params_list(x))>>)

DropCollectionParams(name) ==
  LET n == LaxStr(name) IN ModelErr(<<FieldErr(n, validate_name(n))>>)

InsertParams(name, data) ==
  LET n == LaxStr(name)
      d == LaxList(data, "dict")
  IN  ModelErr(<<FieldErr(n, validate_name(n)), FieldErr(d, validate_data(d))>>)

\* A validation of the acknowledgment that accepts anything.
InsertResults_unchecked(results) == "ok"

InsertResults(results) ==
  LET r == LaxDict(results) IN ModelErr(<<FieldErr(r, isinstance(r, "dict"))>>)

DeleteParams(name, ids) ==
  LET n == LaxStr(name)
      d == LaxList(ids, "str")
  IN  ModelErr(<<FieldErr(n, validate_name(n)), FieldErr(d, validate_ids(d))>>)

FullTextSearchParams(name, query_list, limit) ==
  LET n == LaxStr(name)
      q == LaxList(query_list, "str")
      l == LaxInt(limit)
  IN  ModelErr(<<FieldErr(n, validate_name(n)),
                 FieldErr(q, validate_query_list(q)),
                 FieldErr(l, validate_limit(l))>>)

\* A validation of search results that looks at the outer type only.
FullTextSearchResults_outer_only(results) ==
  ModelErr(<<FieldErr(LaxAny(results), isinstance(results, "SearchResult"))>>)

FullTextSearchResults(results) ==
  ModelErr(<<FieldErr(LaxAny(results),
       /\ isinstance(results, "SearchResult")
       /\ AllInstance(results, "HybridHits")
       /\ \A j \in 1..Len(results.items) : AllInstance(results.items[j], "Hit"))>>)

-----------------------------------------------------------------------------
(* State *)

VARIABLES
  remote,   \* the collection names the remote service holds
  rows,     \* rows[n]: record batches stored in collection n
  fr,       \* fr[c]: the facade call caller c is in (its locals and position)
  budget,   \* budget[c]: facade calls caller c may still start
  prev,     \* prev[c]: operation, name and outcome of c's previous facade call
  start     \* start[c]: remote and rows when c's current facade call began

vars == <<remote, rows, fr, budget, prev, start>>

\* The arguments of the methods of MilvusClientInit the model draws from.
NameArgs == {PyStr("a"), PyStr("b"), PyBytes("a"), PyInt("1")}

FieldArgs ==
  {PyList(<<PyDict("id"), PyDict("text")>>), PyTuple(<<PyDict("id")>>),
   PyList(<<PyInt("1")>>), PyInt("1")}

FuncArgs == {PyList(<<Function("text_bm25_emb")>>), PyList(<<PyInt("1")>>)}

IndexArgs == {PyList(<<PyDict("sparse"), PyDict("dense")>>), PyStr("sparse")}

DataArgs == {PyList(<<PyDict("row")>>), PyTuple(<<PyDict("row")>>), PyList(<<PyInt("1")>>)}

IdArgs == {PyList(<<PyStr("id1")>>), PyList(<<PyInt("1")>>)}

QueryArgs == {PyList(<<PyStr("q1"), PyStr("q2")>>), PyList(<<PyInt("1")>>), PyStr("q1")}

LimitArgs == {PyInt("3"), PyBool("True"), PyStr("3"), PyFloat("3.14")}

\* The module's default arguments ("a" stands for 'collection_ex').
uri == PyStr("http://localhost:19530")

index_params_list == PyList(<<PyDict("sparse")>>)

func_bm25 == Function("text_bm25_emb")

field_params_list == PyList(<<PyDict("id"), PyDict("text"), PyDict("sparse")>>)

collection_name == PyStr("a")

data_ex == PyList(<<PyDict("row1"), PyDict("row2"), PyDict("row3"), PyDict("row4"), PyDict("row5")>>)

query_list == PyList(<<PyStr("q1")>>)

lim_results == PyInt("3")

Args(n, f, g, x, d, i, q, l) ==
  [name |-> n, field_params_list |-> f, func_list |-> g, index_params_list |-> x,
   data |-> d, ids |-> i, query_list |-> q, limit |-> l]

NoArgs == Args(PyNone, PyNone, PyNone, PyNone, PyNone, PyNone, PyNone, PyNone)

\* The frame of a facade call that has just been entered.
NewFrame(op, a) ==
  [pc |-> "entered", op |-> op, args |-> a, collections |-> PyNone,
   schema |-> PyNone, index_params |-> PyNone, i |-> 1, log |-> <<>>,
   slept |-> 0, status |-> "running", value |-> PyNone, err |-> "none"]

IdleFrame == [NewFrame("none", NoArgs) EXCEPT !.pc = "idle"]

\* return v
Return(f, v) == [f EXCEPT !.pc = "done", !.status = "returned", !.value = v]

\* raise (the except clauses log and re-raise)
Raise(f, e) == [f EXCEPT !.pc = "done", !.status = "raised", !.err = e]

\* One call into the pymilvus client: its name, arguments and result.
Logged(f, call, a, ret) ==
  [f EXCEPT !.log = Append(@, [call |-> call, a |-> a, ret |-> ret])]

\* f has made its remote call `call` and the call returned.
RemoteReturned(f, call) ==
  \E j \in 1..Len(f.log) : f.log[j].call = call /\ f.log[j].ret # Raised

\* What a caller keeps of a finished facade call: the operation, the name it
\* was given, how it ended, and whether its remote create or drop returned.
Outcome(f) ==
  [op |-> f.op, name |-> f.args.name, status |-> f.status,
   acted |-> RemoteReturned(f, f.op)]

NoCall == [op |-> "none", name |-> PyNone, status |-> "none", acted |-> FALSE]

\* Marks the objects a facade call builds: the caller and its call number.
Tag(c) == ToString(c) \o "." \o ToString(budget[c])

\* A membership test that only looks whether the list has any name at all.
InCollections_nonempty(name, collections) == Len(collections.items) > 0

\* name in collections
InCollections(name, collections) == SeqHas(collections.items, name)

\* The remote service holds any set of collections; the callers are idle.
\* Caller 1 may start MaxCalls facade calls, caller 2 none.
Init ==
  /\ remote \in SUBSET Names
  /\ rows = [n \in Names |-> 0]
  /\ fr = [c \in Callers |-> IdleFrame]
  /\ budget = [c \in Callers |-> IF c = 1 THEN MaxCalls ELSE 0]
  /\ prev = [c \in Callers |-> NoCall]
  /\ start = [c \in Callers |-> [remote |-> remote, rows |-> rows]]

\* An idle caller starts a facade call.
Begin(c) ==
  /\ fr[c].pc = "idle"
  /\ budget[c] > 0
  /\ budget' = [budget EXCEPT ![c] = @ - 1]
  /\ start' = [start EXCEPT ![c] = [remote |-> remote, rows |-> rows]]
  /\ UNCHANGED prev

\* The caller has the outcome of its facade call and moves on.
next_call(c) ==
  /\ fr[c].pc = "done"
  /\ fr' = [fr EXCEPT ![c] = IdleFrame]
  /\ prev' = [prev EXCEPT ![c] =
                Outcome(fr[c])]
  /\ start' = [start EXCEPT ![c] = [remote |-> remote, rows |-> rows]]
  /\ UNCHANGED <<remote, rows, budget>>

Step(c, f) == fr' = [fr EXCEPT ![c] = f]

Local == UNCHANGED <<remote, rows, budget, prev, start>>

-----------------------------------------------------------------------------
(* The remote service, as the client calls see it *)

\* client.list_collections(): the names held, as a list or as a tuple, an
\* error, or a malformed result
remote_list_collections ==
  LET held  == SelectSeq(NameOrder, LAMBDA n : n \in remote)
      names == [k \in 1..Len(held) |-> PyStr(held[k])]
  IN  {PyList(names), PyTuple(names), Raised, PyNone, PyList(<<PyNone>>)}

\* A list query that takes a raising client call for an empty list.
list_collections_in_swallowing(f, r) ==
  LET g == Logged(f, "list_collections", <<>>, r)
  IN  IF r = Raised THEN [g EXCEPT !.collections = PyList(<<>>)]
      ELSE IF ListCollectionsResults(r) # "ok" THEN Raise(g, ListCollectionsResults(r))
      ELSE [g EXCEPT !.collections = r]

\* A list query that asks the remote twice.
list_collections_in_twice(f, r) ==
  LET g == Logged(Logged(f, "list_collections", <<>>, r), "list_collections", <<>>, r)
  IN  IF r = Raised THEN Raise(g, "RemoteError")
      ELSE IF ListCollectionsResults(r) # "ok" THEN Raise(g, ListCollectionsResults(r))
      ELSE [g EXCEPT !.collections = r]

\* MilvusClientInit.list_collections, called by frame f and getting r
list_collections_in(f, r) ==
  LET g == Logged(f, "list_collections", <<>>, r)
  IN  IF r = Raised THEN Raise(g, "RemoteError")
      ELSE IF ListCollectionsResults(r) # "ok" THEN Raise(g, ListCollectionsResults(r))
      ELSE [g EXCEPT !.collections = r]

-----------------------------------------------------------------------------
(* list_collections *)

list_collections(c) ==
  /\ Begin(c)
  /\ \E r \in remote_list_collections :
       LET f == list_collections_in(NewFrame("list_collections", NoArgs), r)
       IN  Step(c, IF f.pc = "done" THEN f ELSE Return(f, f.collections))
  /\ UNCHANGED <<remote, rows>>

-----------------------------------------------------------------------------
(* create_collection *)

\* A create_collection that prepares the index parameters right after the
\* fields and never adds the functions.
PhaseFrom_functions_skipped(ph, a) ==
  IF ph = "cc_field" /\ Len(a.field_params_list.items) > 0 THEN "cc_field"
  ELSE IF ph \in {"cc_field", "cc_func", "cc_prep"} THEN "cc_prep"
  ELSE IF ph = "cc_index" /\ Len(a.index_params_list.items) > 0 THEN "cc_index"
  ELSE "cc_create"

\* Where create_collection goes next: the for loops over empty lists are skipped.
PhaseFrom(ph, a) ==
  IF ph = "cc_field" /\ Len(a.field_params_list.items) > 0 THEN "cc_field"
  ELSE IF ph \in {"cc_field", "cc_func"} /\ Len(a.func_list.items) > 0 THEN "cc_func"
  ELSE IF ph \in {"cc_field", "cc_func", "cc_prep"} THEN "cc_prep"
  ELSE IF ph = "cc_index" /\ Len(a.index_params_list.items) > 0 THEN "cc_index"
  ELSE "cc_create"

\* create_collection without its existence check.
create_guard_unguarded(f) == [f EXCEPT !.pc = "cc_schema"]

\* A create_collection that also steps back while another caller is creating
\* the same name.
create_guard_exclusive(f) ==
  IF \/ InCollections(f.args.name, f.collections)
     \/ \E d \in Callers : /\ fr[d].op = "create_collection"
                           /\ fr[d].pc \notin {"idle", "done"}
                           /\ fr[d].args.name = f.args.name
  THEN Return(f, PyNone)
  ELSE [f EXCEPT !.pc = "cc_schema"]

\* create_collection taking every name for an existing one.
create_guard_returns(f) == Return(f, PyNone)

\* The existence check of create_collection, on the list just received.
create_guard(f) ==
  IF InCollections(f.args.name, f.collections)
  THEN Return(f, PyNone)
  ELSE [f EXCEPT !.pc = "cc_schema"]

\* Entry of create_collection: validation, then the guard's list query.
create_collection_call(c, n, fl, g, x) ==
  /\ Begin(c)
  /\ \E r \in remote_list_collections :
       LET f0 == NewFrame("create_collection",
                          Args(n, fl, g, x, PyNone, PyNone, PyNone, PyNone))
           e  == CreateCollectionParams(n, fl, g, x)
           f1 == list_collections_in(f0, r)
       IN  Step(c, IF e # "ok" THEN Raise(f0, e)
                   ELSE IF f1.pc = "done" THEN f1
                   ELSE create_guard(f1))
  /\ UNCHANGED <<remote, rows>>

\* create_collection called with arguments drawn from the sets above.
create_collection(c) ==
  \E n \in NameArgs, fl \in FieldArgs, g \in FuncArgs, x \in IndexArgs :
    create_collection_call(c, n, fl, g, x)

\* schema = self.client.create_schema(enable_dynamic_field=True)
create_schema(c) ==
  /\ fr[c].pc = "cc_schema"
  /\ \E ret \in {V("CollectionSchema", Tag(c), <<>>), Raised} :
       LET g == Logged(fr[c], "create_schema", <<PyBool("True")>>, ret)
       IN  Step(c, IF ret = Raised THEN Raise(g, "RemoteError")
                   ELSE [g EXCEPT !.schema = ret, !.i = 1,
                                  !.pc = PhaseFrom("cc_field", g.args)])
  /\ Local

\* An add_field handed an empty mapping.
add_field_kwargs_emptied(params) == <<PyDict("")>>

\* schema.add_field(**params): the entry's keys and values as they are.
add_field_kwargs(params) == <<params>>

\* One turn of `for params in field_params_list: self._create_field(schema, params)`
create_field(c) ==
  /\ fr[c].pc = "cc_field"
  /\ LET f      == fr[c]
         params == f.args.field_params_list.items[f.i]
         e      == CreateFieldParams(f.schema, params)
         last   == f.i = Len(f.args.field_params_list.items)
     IN  \E ret \in {PyNone, Raised} :
           LET g == Logged(f, "add_field", add_field_kwargs(params), ret)
           IN  Step(c, IF e # "ok" THEN Raise(f, e)
                       ELSE IF ret = Raised THEN Raise(g, "RemoteError")
                       ELSE [g EXCEPT !.schema.items = Append(@, params),
                                      !.i = IF last THEN 1 ELSE @ + 1,
                                      !.pc = IF last THEN PhaseFrom("cc_func", g.args) ELSE @])
  /\ Local

\* An add_function loop that logs a raising call and carries on.
add_function_forgiving(c) ==
  /\ fr[c].pc = "cc_func"
  /\ LET f    == fr[c]
         func == f.args.func_list.items[f.i]
         last == f.i = Len(f.args.func_list.items)
     IN  \E ret \in {PyNone, Raised} :
           LET g == Logged(f, "add_function", <<func>>, ret)
           IN  Step(c, [g EXCEPT !.schema.items = Append(@, func),
                                 !.i = IF last THEN 1 ELSE @ + 1,
                                 !.pc = IF last THEN "cc_prep" ELSE @])
  /\ Local

\* One turn of `for func in func_list: schema.add_function(func)`
add_function(c) ==
  /\ fr[c].pc = "cc_func"
  /\ LET f    == fr[c]
         func == f.args.func_list.items[f.i]
         last == f.i = Len(f.args.func_list.items)
     IN  \E ret \in {PyNone, Raised} :
           LET g == Logged(f, "add_function", <<func>>, ret)
           IN  Step(c, IF ret = Raised THEN Raise(g, "RemoteError")
                       ELSE [g EXCEPT !.schema.items = Append(@, func),
                                      !.i = IF last THEN 1 ELSE @ + 1,
                                      !.pc = IF last THEN "cc_prep" ELSE @])
  /\ Local

\* index_params = self.client.prepare_index_params()
prepare_index_params(c) ==
  /\ fr[c].pc = "cc_prep"
  /\ \E ret \in {V("IndexParams", Tag(c), <<>>), Raised} :
       LET g == Logged(fr[c], "prepare_index_params", <<>>, ret)
       IN  Step(c, IF ret = Raised THEN Raise(g, "RemoteError")
                   ELSE [g EXCEPT !.index_params = ret, !.i = 1,
                                  !.pc = PhaseFrom("cc_index", g.args)])
  /\ Local

\* index_params.add_index(**params): the entry's keys and values as they are.
add_index_kwargs(params) == <<params>>

\* One turn of `for params in index_params_list: self._create_index(index_params, params)`
create_index(c) ==
  /\ fr[c].pc = "cc_index"
  /\ LET f      == fr[c]
         params == f.args.index_params_list.items[f.i]
         e      == CreateIndexParams(f.index_params, params)
         last   == f.i = Len(f.args.index_params_list.items)
     IN  \E ret \in {PyNone, Raised} :
           LET g == Logged(f, "add_index", add_index_kwargs(params), ret)
           IN  Step(c, IF e # "ok" THEN Raise(f, e)
                       ELSE IF ret = Raised THEN Raise(g, "RemoteError")
                       ELSE [g EXCEPT !.index_params.items = Append(@, params),
                                      !.i = IF last THEN 1 ELSE @ + 1,
                                      !.pc = IF last THEN "cc_create" ELSE @])
  /\ Local

\* A remote create handed fresh index parameters instead of the ones built.
create_kwargs_unbuilt(f) ==
  <<f.args.name, f.schema, V("IndexParams", f.index_params.val, <<>>)>>

\* The keyword arguments of the remote create: collection_name, schema, index_params.
create_kwargs(f) == <<f.args.name, f.schema, f.index_params>>

\* self.client.create_collection(collection_name=name, schema=schema,
\* index_params=index_params): the service creates the collection ("ok"),
\* answers without having created it ("lost"), or the call raises.
client_create_collection(c) ==
  /\ fr[c].pc = "cc_create"
  /\ \E out \in {"ok", "lost", "raise"} :
       LET f == fr[c]
           g == Logged(f, "create_collection", create_kwargs(f),
                       IF out = "raise" THEN Raised ELSE PyNone)
       IN  /\ Step(c, IF out = "raise" THEN Raise(g, "RemoteError")
                      ELSE [g EXCEPT !.pc = "cc_post"])
           /\ remote' = IF out = "ok" /\ f.args.name.kind = "str"
                        THEN remote \cup {f.args.name.val} ELSE remote
  /\ UNCHANGED <<rows, budget, prev, start>>

\* create_collection without its post-check.
create_verdict_unchecked(f) == Return(f, PyNone)

\* The verdict of the post-check of create_collection on the re-listed names.
create_verdict(f) ==
  IF InCollections(f.args.name, f.collections)
  THEN Return(f, PyNone)
  ELSE Raise(f, "ValueError")

\* A post-check that drops the collection again before it raises.
create_post_check_undoing(c) ==
  /\ fr[c].pc = "cc_post"
  /\ \E r \in remote_list_collections :
       LET f == list_collections_in(fr[c], r)
           v == IF f.pc = "done" THEN f ELSE create_verdict(f)
           n == f.args.name.val
       IN  /\ Step(c, IF v.status = "raised"
                      THEN Logged(v, "drop_collection", <<f.args.name>>, PyNone)
                      ELSE v)
           /\ remote' = IF v.status = "raised" THEN remote \ {n} ELSE remote
  /\ UNCHANGED <<rows, budget, prev, start>>

\* The re-listing after the remote create, and its verdict.
create_post_check(c) ==
  /\ fr[c].pc = "cc_post"
  /\ \E r \in remote_list_collections :
       LET f == list_collections_in(fr[c], r)
       IN  Step(c, IF f.pc = "done" THEN f ELSE create_verdict(f))
  /\ Local

-----------------------------------------------------------------------------
(* drop_collection *)

\* Operations that also step back while another caller is dropping the name.
presence_guard_exclusive(f, next) ==
  IF \/ ~InCollections(f.args.name, f.collections)
     \/ \E d \in Callers : /\ fr[d].op = "drop_collection"
                           /\ fr[d].pc \notin {"idle", "done"}
                           /\ fr[d].args.name = f.args.name
  THEN Return(f, PyNone)
  ELSE [f EXCEPT !.pc = next]

\* Operations that create the collection they do not find.
presence_guard_creating(f, next) ==
  IF ~InCollections(f.args.name, f.collections)
  THEN [f EXCEPT !.pc = "cc_create"]
  ELSE [f EXCEPT !.pc = next]

\* The operations without their existence check.
presence_guard_unguarded(f, next) == [f EXCEPT !.pc = next]

\* The operations taking every name for a missing one.
presence_guard_returns(f, next) == Return(f, PyNone)

\* The existence check shared by drop_collection, insert, delete and
\* full_text_search: absent returns None, present goes on to pc next.
presence_guard(f, next) ==
  IF ~InCollections(f.args.name, f.collections)
  THEN Return(f, PyNone)
  ELSE [f EXCEPT !.pc = next]

\* Entry of drop_collection: validation, then the guard's list query.
drop_collection_call(c, n) ==
  /\ Begin(c)
  /\ \E r \in remote_list_collections :
       LET f0 == NewFrame("drop_collection",
                          Args(n, PyNone, PyNone, PyNone, PyNone, PyNone, PyNone, PyNone))
           e  == DropCollectionParams(n)
           f1 == list_collections_in(f0, r)
       IN  Step(c, IF e # "ok" THEN Raise(f0, e)
                   ELSE IF f1.pc = "done" THEN f1
                   ELSE presence_guard(f1, "dc_drop"))
  /\ UNCHANGED <<remote, rows>>

\* drop_collection called with a name drawn from the set above.
drop_collection(c) == \E n \in NameArgs : drop_collection_call(c, n)

\* self.client.drop_collection(collection_name=name): the service drops the
\* collection ("ok"), answers without having dropped it ("lost"), or raises.
client_drop_collection(c) ==
  /\ fr[c].pc = "dc_drop"
  /\ \E out \in {"ok", "lost", "raise"} :
       LET f == fr[c]
           g == Logged(f, "drop_collection", <<f.args.name>>,
                       IF out = "raise" THEN Raised ELSE PyNone)
           n == f.args.name.val
           held == f.args.name.kind = "str" /\ n \in remote
       IN  /\ Step(c, IF out = "raise" THEN Raise(g, "RemoteError")
                      ELSE [g EXCEPT !.pc = "dc_post"])
           /\ remote' = IF out = "ok" /\ held THEN remote \ {n} ELSE remote
           /\ rows' = IF out = "ok" /\ held THEN [rows EXCEPT ![n] = 0] ELSE rows
  /\ UNCHANGED <<budget, prev, start>>

\* drop_collection without its post-check.
drop_verdict_unchecked(f) == Return(f, PyNone)

\* The verdict of the post-check of drop_collection on the re-listed names.
drop_verdict(f) ==
  IF ~InCollections(f.args.name, f.collections)
  THEN Return(f, PyNone)
  ELSE Raise(f, "ValueError")

\* The re-listing after the remote drop, and its verdict.
drop_post_check(c) ==
  /\ fr[c].pc = "dc_post"
  /\ \E r \in remote_list_collections :
       LET f == list_collections_in(fr[c], r)
       IN  Step(c, IF f.pc = "done" THEN f ELSE drop_verdict(f))
  /\ Local

-----------------------------------------------------------------------------
(* insert *)

\* Entry of insert: validation, then the guard's list query.
insert_call(c, n, d) ==
  /\ Begin(c)
  /\ \E r \in remote_list_collections :
       LET f0 == NewFrame("insert",
                          Args(n, PyNone, PyNone, PyNone, d, PyNone, PyNone, PyNone))
           e  == InsertParams(n, d)
           f1 == list_collections_in(f0, r)
       IN  Step(c, IF e # "ok" THEN Raise(f0, e)
                   ELSE IF f1.pc = "done" THEN f1
                   ELSE presence_guard(f1, "in_insert"))
  /\ UNCHANGED <<remote, rows>>

\* insert called with arguments drawn from the sets above.
insert(c) == \E n \in NameArgs, d \in DataArgs : insert_call(c, n, d)

\* An insert without its delay.
sleep_skipped(f) == f

\* time.sleep(0.5)
sleep(f) == [f EXCEPT !.slept = @ + 1]

\* A remote insert handed the batch wrapped in another list.
insert_kwargs_wrapped(f) == <<f.args.name, PyList(<<f.args.data>>)>>

\* The keyword arguments of the remote insert: collection_name, data.
insert_kwargs(f) == <<f.args.name, f.args.data>>

\* results = self.client.insert(collection_name=name, data=data); the delay;
\* the validation of results; return results.  The service stores the batch
\* and acknowledges with a mapping ("ack") or with something else ("odd"), or
\* the call raises; it raises when it does not hold the collection.
client_insert(c) ==
  /\ fr[c].pc = "in_insert"
  /\ LET f    == fr[c]
         n    == f.args.name.val
         held == f.args.name.kind = "str" /\ n \in remote
     IN  \E out \in (IF held THEN {"ack", "odd", "raise"} ELSE {"raise"}) :
           LET results == CASE out = "ack" -> PyDict("insert_count")
                            [] out = "odd" -> PyNone
                            [] OTHER -> Raised
               g == Logged(f, "insert", insert_kwargs(f), results)
               h == sleep(g)
           IN  /\ Step(c, IF out = "raise" THEN Raise(g, "RemoteError")
                          ELSE IF InsertResults(results) # "ok"
                               THEN Raise(h, InsertResults(results))
                          ELSE Return(h, results))
               /\ rows' = IF out # "raise" THEN [rows EXCEPT ![n] = @ + 1] ELSE rows
  /\ UNCHANGED <<remote, budget, prev, start>>

-----------------------------------------------------------------------------
(* delete *)

\* Entry of delete: validation, then the guard's list query.
delete_call(c, n, ids) ==
  /\ Begin(c)
  /\ \E r \in remote_list_collections :
       LET f0 == NewFrame("delete",
                          Args(n, PyNone, PyNone, PyNone, PyNone, ids, PyNone, PyNone))
           e  == DeleteParams(n, ids)
           f1 == list_collections_in(f0, r)
       IN  Step(c, IF e # "ok" THEN Raise(f0, e)
                   ELSE IF f1.pc = "done" THEN f1
                   ELSE presence_guard(f1, "de_delete"))
  /\ UNCHANGED <<remote, rows>>

\* delete called with arguments drawn from the sets above.
delete(c) == \E n \in NameArgs, ids \in IdArgs : delete_call(c, n, ids)

\* results = self.client.delete(collection_name=name, ids=ids); the delay.
\* The service removes a batch ("hit"), finds nothing to remove ("miss"), or
\* the call raises; it raises when it does not hold the collection.
client_delete(c) ==
  /\ fr[c].pc = "de_delete"
  /\ LET f    == fr[c]
         n    == f.args.name.val
         held == f.args.name.kind = "str" /\ n \in remote
     IN  \E out \in (IF held THEN {"hit", "miss", "raise"} ELSE {"raise"}) :
           LET g == Logged(f, "delete", <<f.args.name, f.args.ids>>,
                           IF out = "raise" THEN Raised ELSE PyDict("delete_count"))
           IN  /\ Step(c, IF out = "raise" THEN Raise(g, "RemoteError")
                          ELSE Return(sleep(g), PyNone))
               /\ rows' = IF out = "hit" /\ rows[n] > 0
                          THEN [rows EXCEPT ![n] = @ - 1] ELSE rows
  /\ UNCHANGED <<remote, budget, prev, start>>

-----------------------------------------------------------------------------
(* full_text_search *)

\* Entry of full_text_search: validation, then the guard's list query.
full_text_search_call(c, n, q, l) ==
  /\ Begin(c)
  /\ \E r \in remote_list_collections :
       LET f0 == NewFrame("full_text_search",
                          Args(n, PyNone, PyNone, PyNone, PyNone, PyNone, q, l))
           e  == FullTextSearchParams(n, q, l)
           f1 == list_collections_in(f0, r)
       IN  Step(c, IF e # "ok" THEN Raise(f0, e)
                   ELSE IF f1.pc = "done" THEN f1
                   ELSE presence_guard(f1, "se_search"))
  /\ UNCHANGED <<remote, rows>>

\* full_text_search called with arguments drawn from the sets above.
full_text_search(c) ==
  \E n \in NameArgs, q \in QueryArgs, l \in LimitArgs : full_text_search_call(c, n, q, l)

\* The fixed arguments of the remote search.
anns_field == PyStr("sparse")

output_fields == PyList(<<PyStr("text")>>)

search_params == PyDict("params:drop_ratio_search:0.2")

\* A remote search handed only the first query.
search_kwargs_first_query(f) ==
  <<f.args.name, PyList(<<f.args.query_list.items[1]>>), anns_field, output_fields,
    f.args.limit, search_params>>

\* The keyword arguments of the remote search: collection_name, data,
\* anns_field, output_fields, limit, search_params.
search_kwargs(f) ==
  <<f.args.name, f.args.query_list, anns_field, output_fields, f.args.limit,
    search_params>>

\* What the remote search can answer for the queries q: a SearchResult with
\* one HybridHits of Hit per query, or a result of another shape.
remote_search(q) ==
  {V("SearchResult", "", [j \in 1..Len(q.items) |-> V("HybridHits", "", <<V("Hit", "h", <<>>)>>)]),
   V("SearchResult", "", <<V("HybridHits", "", <<PyDict("h")>>)>>),
   V("SearchResult", "", <<PyList(<<>>)>>),
   PyList(<<>>)}

\* results = self.client.search(...); the validation of results; return results.
client_search(c) ==
  /\ fr[c].pc = "se_search"
  /\ LET f    == fr[c]
         held == f.args.name.kind = "str" /\ f.args.name.val \in remote
     IN  \E results \in (IF held THEN remote_search(f.args.query_list) ELSE {}) \cup {Raised} :
           LET g == Logged(f, "search", search_kwargs(f), results)
           IN  Step(c, IF results = Raised THEN Raise(g, "RemoteError")
                       ELSE IF FullTextSearchResults(results) # "ok"
                            THEN Raise(g, FullTextSearchResults(results))
                       ELSE Return(g, results))
  /\ Local

-----------------------------------------------------------------------------

Next ==
  \E c \in Callers :
    \/ list_collections(c)
    \/ create_collection(c)
    \/ create_schema(c)
    \/ create_field(c)
    \/ add_function(c)
    \/ prepare_index_params(c)
    \/ create_index(c)
    \/ client_create_collection(c)
    \/ create_post_check(c)
    \/ drop_collection(c)
    \/ client_drop_collection(c)
    \/ drop_post_check(c)
    \/ insert(c)
    \/ client_insert(c)
    \/ delete(c)
    \/ client_delete(c)
    \/ full_text_search(c)
    \/ client_search(c)
    \/ next_call(c)

\* One caller (caller 1) making up to MaxCalls facade calls.
Spec == Init /\ [][Next]_vars

-----------------------------------------------------------------------------
(* Construction *)

\* The arguments MilvusClientInit(uri, client) is constructed with.
UriArgs == {uri, PyBytes("http://localhost:19530"), PyInt("1"), PyNone}

ClientArgs == {PyNone, V("MilvusClient", "given", <<>>), PyInt("1")}

InitArgs(u, cl) == [uri |-> u, client |-> cl] @@ NoArgs

\* The object under construction once self.uri and self.client are set.
Self(u, cl) == V("MilvusClientInit", "", <<u, cl>>)

\* MilvusClientInit.__init__(uri, client): the validation of uri, then either
\* the call of _init_client or the validation and storing of the handle given.
MilvusClientInit_init_call(c, u, cl) ==
  /\ Begin(c)
  /\ LET f0 == NewFrame("__init__", InitArgs(u, cl))
     IN  Step(c, IF InitClientParams(u) # "ok" THEN Raise(f0, InitClientParams(u))
                 ELSE IF cl = PyNone THEN [f0 EXCEPT !.pc = "ic_client"]
                 ELSE IF InitClientResults(cl) # "ok"
                      THEN Raise(f0, InitClientResults(cl))
                 ELSE Return(f0, Self(u, cl)))
  /\ UNCHANGED <<remote, rows>>

\* MilvusClientInit constructed with arguments drawn from the sets above.
MilvusClientInit_init(c) ==
  \E u \in UriArgs, cl \in ClientArgs : MilvusClientInit_init_call(c, u, cl)

\* _init_client: MilvusClient(uri=self.uri) connects and gives the handle,
\* raises when the service cannot be reached, or (a patched constructor)
\* gives something that is no handle; the validation of what it gave.
init_client(c) ==
  /\ fr[c].pc = "ic_client"
  /\ LET f == fr[c]
     IN  \E ret \in {V("MilvusClient", Tag(c), <<f.args.uri>>), Raised, PyInt("1")} :
           LET g == Logged(f, "MilvusClient", <<f.args.uri>>, ret)
           IN  Step(c, IF ret = Raised THEN Raise(g, "RemoteError")
                       ELSE IF InitClientResults(ret) # "ok"
                            THEN Raise(g, InitClientResults(ret))
                       ELSE Return(g, Self(f.args.uri, ret)))
  /\ Local

NextInit ==
  \E c \in Callers :
    \/ MilvusClientInit_init(c)
    \/ init_client(c)
    \/ next_call(c)

\* One caller constructing up to MaxCalls facade objects.
SpecInit == Init /\ [][NextInit]_vars

-----------------------------------------------------------------------------
(* The demo script scripts/milvus_test.py *)

\* The caller that runs the script, and the calls the script makes at most.
Script == 1

ScriptCalls == 7

\* The script's place is the number of calls it has yet to start:
\* 7 MilvusClientInit(), 6 list_collections(), 5 drop_collection(collection_name)
\* under the if, 4 create_collection(), 3 insert(), 2 full_text_search(),
\* 1 drop_collection(collection_name).
InitScript ==
  /\ remote \in SUBSET Names
  /\ rows \in [Names -> 0..1]
  /\ \A n \in Names : n \notin remote => rows[n] = 0
  /\ fr = [c \in Callers |-> IdleFrame]
  /\ budget = [c \in Callers |-> IF c = Script THEN ScriptCalls ELSE 0]
  /\ prev = [c \in Callers |-> NoCall]
  /\ start = [c \in Callers |-> [remote |-> remote, rows |-> rows]]

\* client = MilvusClientInit()
script_init == budget[Script] = ScriptCalls /\ MilvusClientInit_init_call(Script, uri, PyNone)

\* collections = client.list_collections()
script_list == budget[Script] = 6 /\ list_collections(Script)

\* if collection_name in collections: the branch taken
script_if_present ==
  /\ fr[Script].op = "list_collections" /\ fr[Script].status = "returned"
  /\ InCollections(collection_name, fr[Script].value)
  /\ next_call(Script)

\* if collection_name in collections: the branch skipped
script_if_absent ==
  /\ fr[Script].op = "list_collections" /\ fr[Script].status = "returned"
  /\ ~InCollections(collection_name, fr[Script].value)
  /\ fr[Script].pc = "done"
  /\ fr' = [fr EXCEPT ![Script] = IdleFrame]
  /\ budget' = [budget EXCEPT ![Script] = 4]
  /\ prev' = [prev EXCEPT ![Script] =
                Outcome(fr[Script])]
  /\ start' = [start EXCEPT ![Script] = [remote |-> remote, rows |-> rows]]
  /\ UNCHANGED <<remote, rows>>

\* client.drop_collection(collection_name), under the if and at the end
script_drop ==
  budget[Script] \in {5, 1} /\ drop_collection_call(Script, collection_name)

\* client.create_collection()
script_create ==
  /\ budget[Script] = 4
  /\ create_collection_call(Script, collection_name, field_params_list,
                            PyList(<<func_bm25>>), index_params_list)

\* client.insert()
script_insert == budget[Script] = 3 /\ insert_call(Script, collection_name, data_ex)

\* client.full_text_search()
script_search ==
  budget[Script] = 2 /\ full_text_search_call(Script, collection_name, query_list, lim_results)

\* A statement of the script returned: on to the next one.  An exception
\* ends the script where it is.
script_next ==
  /\ fr[Script].op # "list_collections" /\ fr[Script].status = "returned"
  /\ budget[Script] > 0
  /\ next_call(Script)

NextScript ==
  \/ script_init
  \/ init_client(Script)
  \/ script_list
  \/ script_if_present
  \/ script_if_absent
  \/ script_drop
  \/ client_drop_collection(Script)
  \/ drop_post_check(Script)
  \/ script_create
  \/ create_schema(Script)
  \/ create_field(Script)
  \/ add_function(Script)
  \/ prepare_index_params(Script)
  \/ create_index(Script)
  \/ client_create_collection(Script)
  \/ create_post_check(Script)
  \/ script_insert
  \/ client_insert(Script)
  \/ script_search
  \/ client_search(Script)
  \/ script_next

SpecScript == InitScript /\ [][NextScript]_vars

-----------------------------------------------------------------------------
(* Two callers on one client *)

\* Both callers may start one facade call.
InitConc ==
  /\ remote \in SUBSET Names
  /\ rows = [n \in Names |-> 0]
  /\ fr = [c \in Callers |-> IdleFrame]
  /\ budget = [c \in Callers |-> 1]
  /\ prev = [c \in Callers |-> NoCall]
  /\ start = [c \in Callers |-> [remote |-> remote, rows |-> rows]]

\* Each caller makes one call on the default collection with the default
\* arguments; the steps of the two calls interleave freely, since the facade
\* holds no lock.
NextConc ==
  \E c \in Callers :
    \/ create_collection_call(c, collection_name, field_params_list,
                              PyList(<<func_bm25>>), index_params_list)
    \/ create_schema(c)
    \/ create_field(c)
    \/ add_function(c)
    \/ prepare_index_params(c)
    \/ create_index(c)
    \/ client_create_collection(c)
    \/ create_post_check(c)
    \/ drop_collection_call(c, collection_name)
    \/ client_drop_collection(c)
    \/ drop_post_check(c)
    \/ insert_call(c, collection_name, data_ex)
    \/ client_insert(c)
    \/ delete_call(c, collection_name, PyList(<<PyStr("id1")>>))
    \/ client_delete(c)
    \/ full_text_search_call(c, collection_name, query_list, lim_results)
    \/ client_search(c)

SpecConc == InitConc /\ [][NextConc]_vars

-----------------------------------------------------------------------------
(* Properties *)

\* How many times the facade call f has made the client call `call`.
Calls(f, call) == Cardinality({j \in 1..Len(f.log) : f.log[j].call = call})

\* v is a list of strings.
IsNameList(v) == v.kind = "list" /\ \A j \in 1..Len(v.items) : v.items[j].kind = "str"

\* The guard of f has received the remote list.
GuardSaw(f) ==
  /\ Len(f.log) >= 1
  /\ f.log[1].call = "list_collections"
  /\ IsNameList(f.log[1].ret)

AbsentAtGuard(f) == GuardSaw(f) /\ ~SeqHas(f.log[1].ret.items, f.args.name)

PresentAtGuard(f) == GuardSaw(f) /\ SeqHas(f.log[1].ret.items, f.args.name)

BuildCalls ==
  {"create_schema", "add_field", "add_function", "prepare_index_params", "add_index"}

\* No schema- or index-building call of f has raised.
BuildOk(f) ==
  \A j \in 1..Len(f.log) : f.log[j].call \in BuildCalls => f.log[j].ret # Raised

\* The schema and the index parameters create_collection builds from its arguments.
BuiltSchema(c, f) ==
  V("CollectionSchema", Tag(c), f.args.field_params_list.items \o f.args.func_list.items)

BuiltIndexParams(c, f) == V("IndexParams", Tag(c), f.args.index_params_list.items)

\* Every remote create of f names f's collection and carries the objects built in f.
CreateCarriesBuilt(c, f) ==
  \A j \in 1..Len(f.log) :
    f.log[j].call = "create_collection"
      => f.log[j].a = <<f.args.name, BuiltSchema(c, f), BuiltIndexParams(c, f)>>

\* C1 as stated: whenever the guard of create_collection finds the name
\* absent, the finished call has invoked the remote create exactly once, with
\* that name and the schema and index parameters built in this call.
C1_CreateExactlyOnce ==
  \A c \in Callers :
    LET f == fr[c]
    IN  (f.op = "create_collection" /\ f.pc = "done" /\ AbsentAtGuard(f))
          => Calls(f, "create_collection") = 1 /\ CreateCarriesBuilt(c, f)

\* C1 amended: when the guard of create_collection finds the name absent,
\* the remote create is invoked at most once, and exactly once by the time the
\* call ends if no schema- or index-building call raised; every invocation
\* names that collection and carries the schema and index parameters built in
\* this call.
C1_CreateOnceWhenBuilt ==
  \A c \in Callers :
    LET f == fr[c]
    IN  (f.op = "create_collection" /\ AbsentAtGuard(f))
          => /\ Calls(f, "create_collection") <= 1
             /\ (f.pc = "done" /\ BuildOk(f) => Calls(f, "create_collection") = 1)
             /\ CreateCarriesBuilt(c, f)

C1_Witness ==
  \E c \in Callers :
    /\ fr[c].op = "create_collection" /\ fr[c].pc = "done" /\ AbsentAtGuard(fr[c])
    /\ fr[c].status = "returned"
    /\ Calls(fr[c], "create_collection") = 1

\* C2: create_collection on a name the guard finds in the remote list returns
\* normally having made one client call, the list query, and none of
\* create_schema, add_field, add_function, prepare_index_params, add_index or
\* create_collection; the remote collection set is as it was at the call.
C2_CreateExistingIsNoOp ==
  \A c \in Callers :
    LET f == fr[c]
    IN  (f.op = "create_collection" /\ PresentAtGuard(f))
          => /\ f.pc = "done" /\ f.status = "returned" /\ f.value = PyNone
             /\ Len(f.log) = 1
             /\ remote = start[c].remote

C2_Witness ==
  \E c \in Callers :
    fr[c].op = "create_collection" /\ PresentAtGuard(fr[c]) /\ fr[c].pc = "done"

\* C3: drop_collection on a name the guard does not find in the remote list
\* returns normally having made one client call, the list query, and no remote
\* drop; the remote collection set is as it was at the call.
C3_DropAbsentIsNoOp ==
  \A c \in Callers :
    LET f == fr[c]
    IN  (f.op = "drop_collection" /\ AbsentAtGuard(f))
          => /\ f.pc = "done" /\ f.status = "returned" /\ f.value = PyNone
             /\ Len(f.log) = 1 /\ Calls(f, "drop_collection") = 0
             /\ remote = start[c].remote /\ rows = start[c].rows

C3_Witness ==
  \E c \in Callers :
    /\ fr[c].op = "drop_collection" /\ AbsentAtGuard(fr[c]) /\ fr[c].pc = "done"
    /\ Len(fr[c].log[1].ret.items) > 0

\* C4: drop_collection on a name the guard finds in the remote list invokes
\* the remote drop exactly once, with collection_name equal to that name.
C4_DropPresentDropsOnce ==
  \A c \in Callers :
    LET f == fr[c]
    IN  (f.op = "drop_collection" /\ PresentAtGuard(f))
          => /\ Calls(f, "drop_collection") <= 1
             /\ (f.pc = "done" => Calls(f, "drop_collection") = 1)
             /\ \A j \in 1..Len(f.log) :
                  f.log[j].call = "drop_collection" => f.log[j].a = <<f.args.name>>

C4_Witness ==
  \E c \in Callers :
    /\ fr[c].op = "drop_collection" /\ PresentAtGuard(fr[c]) /\ fr[c].pc = "done"
    /\ Calls(fr[c], "drop_collection") = 1

\* C5: with a single caller, a list_collections that follows a
\* create_collection(name) that returned normally includes name, and one that
\* follows a drop_collection(name) that returned normally excludes name.
C5_ListAfterCreateAndDrop ==
  \A c \in Callers :
    LET f == fr[c]
    IN  (f.op = "list_collections" /\ f.status = "returned" /\ prev[c].status = "returned")
          => /\ prev[c].op = "create_collection" => SeqHas(f.value.items, prev[c].name)
             /\ prev[c].op = "drop_collection" => ~SeqHas(f.value.items, prev[c].name)

C5_Witness ==
  \E c \in Callers :
    /\ fr[c].op = "list_collections" /\ fr[c].status = "returned"
    /\ prev[c].op = "create_collection" /\ prev[c].status = "returned"
    /\ SeqHas(fr[c].value.items, prev[c].name)

\* The remote call `call` of f returned and the re-listing that followed it
\* is a list of names that has (has = TRUE) or lacks (has = FALSE) f's name.
PostCheckSaw(f, call, has) ==
  \E j \in 1..(Len(f.log) - 1) :
    /\ f.log[j].call = call /\ f.log[j].ret # Raised
    /\ f.log[j + 1].call = "list_collections" /\ IsNameList(f.log[j + 1].ret)
    /\ SeqHas(f.log[j + 1].ret.items, f.args.name) = has

\* C6: if the remote create returned and the re-listed collections do not
\* contain the name, create_collection raises a ValueError.
C6_CreatePostCheckRaises ==
  \A c \in Callers :
    (fr[c].op = "create_collection" /\ PostCheckSaw(fr[c], "create_collection", FALSE))
      => fr[c].pc = "done" /\ fr[c].status = "raised" /\ fr[c].err = "ValueError"

C6_Witness ==
  \E c \in Callers :
    fr[c].op = "create_collection" /\ PostCheckSaw(fr[c], "create_collection", FALSE)

\* C7: if the remote drop returned and the re-listed collections still
\* contain the name, drop_collection raises a ValueError.
C7_DropPostCheckRaises ==
  \A c \in Callers :
    (fr[c].op = "drop_collection" /\ PostCheckSaw(fr[c], "drop_collection", TRUE))
      => fr[c].pc = "done" /\ fr[c].status = "raised" /\ fr[c].err = "ValueError"

C7_Witness ==
  \E c \in Callers :
    fr[c].op = "drop_collection" /\ PostCheckSaw(fr[c], "drop_collection", TRUE)

\* C8: insert, delete and full_text_search on a name the guard does not find
\* in the remote list return None having made one client call, the list
\* query, so no remote insert, delete or search, and having applied no delay.
C8_AbsentReturnsNone ==
  \A c \in Callers :
    LET f == fr[c]
    IN  (f.op \in {"insert", "delete", "full_text_search"} /\ AbsentAtGuard(f))
          => /\ f.pc = "done" /\ f.status = "returned" /\ f.value = PyNone
             /\ Len(f.log) = 1
             /\ Calls(f, "insert") = 0 /\ Calls(f, "delete") = 0 /\ Calls(f, "search") = 0
             /\ f.slept = 0

C8_Witness ==
  \E c \in Callers :
    /\ fr[c].op = "full_text_search" /\ AbsentAtGuard(fr[c]) /\ fr[c].pc = "done"
    /\ prev[c].op \in {"insert", "delete"} /\ prev[c].status = "returned"
    /\ prev[c].name = fr[c].args.name

\* v is not a list, or has an item that is not of kind k.
NotListOf(v, k) == v.kind # "list" \/ \E j \in 1..Len(v.items) : v.items[j].kind # k

\* C9: create_collection, drop_collection, insert and delete raise before any
\* client call, the list query included, and leave the remote state alone,
\* when the name is not a string, a field, function or index list is not a
\* list, or a record or parameter entry is not a dict.
C9_IllTypedRaisesBeforeRemote ==
  \A c \in Callers :
    LET f == fr[c]
        a == f.args
    IN  (\/ f.op \in {"create_collection", "drop_collection", "insert", "delete"}
            /\ a.name.kind # "str"
         \/ f.op = "create_collection"
            /\ (\/ NotListOf(a.field_params_list, "dict")
                \/ a.func_list.kind # "list"
                \/ NotListOf(a.index_params_list, "dict"))
         \/ f.op = "insert" /\ NotListOf(a.data, "dict"))
          => /\ f.pc = "done" /\ f.status = "raised"
             /\ Len(f.log) = 0
             /\ remote = start[c].remote /\ rows = start[c].rows

\* C10: full_text_search raises before any client call, the list query and
\* the search included, when the name is not a string, the query list is not
\* a list of strings, or the limit is not an integer, a boolean included.
C10_SearchIllTypedRaisesBeforeRemote ==
  \A c \in Callers :
    LET f == fr[c]
        a == f.args
    IN  (f.op = "full_text_search"
         /\ (\/ a.name.kind # "str"
             \/ NotListOf(a.query_list, "str")
             \/ a.limit.kind # "int"))
          => /\ f.pc = "done" /\ f.status = "raised"
             /\ Len(f.log) = 0

\* The client calls `call` of f, in the order they were made.
CallsOf(f, call) == SelectSeq(f.log, LAMBDA e : e.call = call)

\* C11: when the guard of full_text_search finds the name present, the
\* remote search is invoked exactly once by the time the call ends, with
\* collection_name, data and limit as they were passed in, anns_field
\* "sparse", output_fields ["text"] and the fixed search_params.
C11_SearchOnceWithArguments ==
  \A c \in Callers :
    LET f == fr[c]
        s == CallsOf(f, "search")
    IN  (f.op = "full_text_search" /\ PresentAtGuard(f))
          => /\ Len(s) <= 1
             /\ f.pc = "done" => Len(s) = 1
             /\ \A j \in 1..Len(s) :
                  s[j].a = <<f.args.name, f.args.query_list, PyStr("sparse"),
                             PyList(<<PyStr("text")>>), f.args.limit,
                             PyDict("params:drop_ratio_search:0.2")>>

C11_Witness ==
  \E c \in Callers :
    /\ fr[c].op = "full_text_search" /\ PresentAtGuard(fr[c])
    /\ fr[c].pc = "done" /\ fr[c].status = "returned"
    /\ Calls(fr[c], "search") = 1
    /\ Len(fr[c].args.query_list.items) = 2

\* C12: when the guard of insert finds the name present, the remote insert
\* is invoked exactly once by the time the call ends, with that name and
\* that data as they were passed in; an acknowledgment that is a mapping is
\* what insert returns, and whatever insert returns then is a mapping.
C12_InsertOnceReturnsAck ==
  \A c \in Callers :
    LET f == fr[c]
        s == CallsOf(f, "insert")
    IN  (f.op = "insert" /\ PresentAtGuard(f))
          => /\ Len(s) <= 1
             /\ f.pc = "done" => Len(s) = 1
             /\ \A j \in 1..Len(s) :
                  /\ s[j].a = <<f.args.name, f.args.data>>
                  /\ s[j].ret.kind = "dict"
                       => f.status = "returned" /\ f.value = s[j].ret
             /\ f.status = "returned" => f.value.kind = "dict"

C12_Witness ==
  \E c \in Callers :
    /\ fr[c].op = "insert" /\ PresentAtGuard(fr[c])
    /\ fr[c].pc = "done" /\ fr[c].status = "returned"
    /\ fr[c].value = PyDict("insert_count")
    /\ rows[fr[c].args.name.val] = start[c].rows[fr[c].args.name.val] + 1

\* C13: in insert and delete the delay is applied exactly once when the
\* remote insert or delete has returned, whatever the call does next, and it
\* is not applied when that remote call raised or was not made.
C13_DelayOnceAfterRemoteReturn ==
  \A c \in Callers :
    LET f == fr[c]
        s == CallsOf(f, "insert") \o CallsOf(f, "delete")
    IN  f.op \in {"insert", "delete"}
          => /\ (\E j \in 1..Len(s) : s[j].ret # Raised) => f.slept = 1
             /\ (\A j \in 1..Len(s) : s[j].ret = Raised) => f.slept = 0
             /\ f.status = "returned" /\ Len(s) = 1 => f.slept = 1

C13_Witness ==
  \E c \in Callers :
    /\ fr[c].op = "insert" /\ fr[c].pc = "done" /\ fr[c].status = "raised"
    /\ Calls(fr[c], "insert") = 1 /\ fr[c].slept = 1
    /\ prev[c].op = "delete" /\ prev[c].status = "returned"

\* The arguments of the client calls `call` of f, in the order they were made.
ArgsOf(f, call) == [j \in 1..Len(CallsOf(f, call)) |-> CallsOf(f, call)[j].a]

\* One argument tuple per entry of the list v, in the order of the list.
OnePerEntry(v) == [j \in 1..Len(v.items) |-> <<v.items[j]>>]

\* s is an initial part of t.
IsPrefix(s, t) == Len(s) <= Len(t) /\ \A j \in 1..Len(s) : s[j] = t[j]

\* C14 as stated: a create_collection whose guard found the name absent has,
\* when it ends, called add_field exactly once per field entry and add_index
\* exactly once per index entry, each with the entry unchanged, in input order.
C14_EveryEntryOnce ==
  \A c \in Callers :
    LET f == fr[c]
    IN  (f.op = "create_collection" /\ f.pc = "done" /\ AbsentAtGuard(f))
          => /\ ArgsOf(f, "add_field") = OnePerEntry(f.args.field_params_list)
             /\ ArgsOf(f, "add_index") = OnePerEntry(f.args.index_params_list)

\* C14 amended: add_field and add_index are called at most once per entry,
\* each with the entry unchanged and in input order: the calls made so far
\* are an initial part of the entries.  Every field entry has had its call
\* once add_function, prepare_index_params or add_index is reached, and every
\* index entry once the remote create is reached; a raising call ends the
\* operation with the remaining entries never submitted.
C14_EntriesInOrderUntilRaise ==
  \A c \in Callers :
    LET f == fr[c]
    IN  f.op = "create_collection"
          => /\ IsPrefix(ArgsOf(f, "add_field"), OnePerEntry(f.args.field_params_list))
             /\ IsPrefix(ArgsOf(f, "add_index"), OnePerEntry(f.args.index_params_list))
             /\ Calls(f, "add_function") + Calls(f, "prepare_index_params")
                  + Calls(f, "add_index") > 0
                  => ArgsOf(f, "add_field") = OnePerEntry(f.args.field_params_list)
             /\ Calls(f, "create_collection") > 0
                  => ArgsOf(f, "add_index") = OnePerEntry(f.args.index_params_list)
             /\ (f.pc = "done" /\ AbsentAtGuard(f) /\ BuildOk(f))
                  => /\ ArgsOf(f, "add_field") = OnePerEntry(f.args.field_params_list)
                     /\ ArgsOf(f, "add_index") = OnePerEntry(f.args.index_params_list)

C14_Witness ==
  \E c \in Callers :
    /\ fr[c].op = "create_collection" /\ fr[c].pc = "done" /\ AbsentAtGuard(fr[c])
    /\ fr[c].status = "returned"
    /\ Calls(fr[c], "add_field") = 2 /\ Calls(fr[c], "add_index") = 2

\* C15: a client call that raises is the last client call of its facade
\* call: the operation ends there, raising the error of that call, and
\* neither repeats the call nor makes another.
C15_RemoteErrorEndsTheCall ==
  \A c \in Callers :
    LET f == fr[c]
    IN  \A j \in 1..Len(f.log) :
          f.log[j].ret = Raised
            => /\ j = Len(f.log)
               /\ f.pc = "done" /\ f.status = "raised" /\ f.err = "RemoteError"

C15_Witness ==
  \E c \in Callers :
    /\ fr[c].op = "drop_collection" /\ fr[c].pc = "done" /\ fr[c].status = "raised"
    /\ Len(fr[c].log) = 3 /\ fr[c].log[3].ret = Raised
    /\ prev[c].op = "full_text_search" /\ prev[c].status = "raised"
    /\ prev[c].name = fr[c].args.name

\* C16: nothing in the facade keeps apart two callers creating the same
\* name: when both guards found the name absent, each caller goes on to its
\* own remote create whatever the other has done, so both calls end having
\* invoked it once if their building calls did not raise, and a caller whose
\* post-check then sees the name returns normally, unaware of the other.
C16_BothCallersCreate ==
  \A c, d \in Callers :
    LET f == fr[c]
        g == fr[d]
    IN  (/\ c # d
         /\ f.op = "create_collection" /\ g.op = "create_collection"
         /\ f.args.name = g.args.name
         /\ AbsentAtGuard(f) /\ AbsentAtGuard(g))
          => /\ (f.pc = "done" /\ BuildOk(f)) => Calls(f, "create_collection") = 1
             /\ PostCheckSaw(f, "create_collection", TRUE)
                  => f.status = "returned" /\ f.value = PyNone

C16_Witness ==
  \A c \in Callers :
    /\ fr[c].op = "create_collection" /\ fr[c].args.name = collection_name
    /\ AbsentAtGuard(fr[c])
    /\ fr[c].pc = "done" /\ fr[c].status = "returned"
    /\ Calls(fr[c], "create_collection") = 1
    /\ CallsOf(fr[c], "create_collection")[1].ret # Raised
    /\ start[c].remote = {}

\* C17: constructed without a handle, MilvusClientInit constructs exactly
\* one client from the uri given and raises if that raises; constructed with
\* a handle it constructs none, stores the handle given, and raises if what
\* was given is no client handle; on both paths a uri that is not a string
\* raises before any handle is constructed or stored.
C17_ConstructorHandles ==
  \A c \in Callers :
    LET f == fr[c]
        a == f.args
        m == CallsOf(f, "MilvusClient")
    IN  (f.op = "__init__" /\ f.pc = "done")
          => /\ a.uri.kind # "str"
                  => f.status = "raised" /\ Len(m) = 0 /\ f.value = PyNone
             /\ (a.uri.kind = "str" /\ a.client = PyNone)
                  => /\ Len(m) = 1 /\ m[1].a = <<a.uri>>
                     /\ m[1].ret = Raised => f.status = "raised"
                     /\ f.status = "returned" => f.value = Self(a.uri, m[1].ret)
             /\ (a.uri.kind = "str" /\ a.client # PyNone)
                  => /\ Len(m) = 0
                     /\ a.client.kind = "MilvusClient"
                          => f.status = "returned" /\ f.value = Self(a.uri, a.client)
                     /\ a.client.kind # "MilvusClient" => f.status = "raised"

\* The client calls the guards stand before.
GuardedCalls == {"create_collection", "drop_collection", "insert", "delete", "search"}

\* The first client call of f is a list query that gave the names in which
\* the guard looked for f's name, and found it or not as `has` says.
GuardDecided(f, has) ==
  /\ Len(f.log) >= 1
  /\ f.log[1].call = "list_collections"
  /\ f.log[1].ret.kind \in {"list", "tuple"}
  /\ SeqHas(f.log[1].ret.items, f.args.name) = has

\* C18 as stated: every remote create, drop, insert, delete or search comes
\* right after the list query of its guard, with no client call in between.
C18_ListRightBeforeGuardedCall ==
  \A c \in Callers :
    LET f == fr[c]
    IN  \A j \in 1..Len(f.log) :
          f.log[j].call \in GuardedCalls
            => /\ j = 2
               /\ GuardDecided(f, f.log[j].call # "create_collection")

\* C18 amended: every remote create, drop, insert, delete or search is
\* preceded, in the same facade call, by the list query whose result decided
\* the guard; for drop, insert, delete and search no client call lies between
\* the two, while between the guard's list query and the remote create lie
\* exactly the building calls create_schema, add_field, add_function,
\* prepare_index_params and add_index, none of which raised.
C18_ListBeforeGuardedCall ==
  \A c \in Callers :
    LET f == fr[c]
    IN  \A j \in 1..Len(f.log) :
          f.log[j].call \in GuardedCalls
            => /\ j >= 2
               /\ GuardDecided(f, f.log[j].call # "create_collection")
               /\ f.log[j].call # "create_collection" => j = 2
               /\ f.log[j].call = "create_collection"
                    => /\ j > 2
                       /\ \A k \in 2..(j - 1) :
                            f.log[k].call \in BuildCalls /\ f.log[k].ret # Raised

C18_Witness ==
  \E c \in Callers :
    /\ fr[c].op = "create_collection" /\ Calls(fr[c], "create_collection") = 1
    /\ Len(fr[c].log) >= 8
    /\ prev[c].op = "drop_collection" /\ prev[c].status = "returned"
    /\ prev[c].name = fr[c].args.name

\* C19: list_collections makes the remote list query exactly once and
\* returns what it received; a result that is not a list of strings makes it
\* raise, and a create_collection, drop_collection, insert, delete or
\* full_text_search whose guard receives such a result raises without having
\* made its remote create, drop, insert, delete or search.
C19_ListResultValidated ==
  \A c \in Callers :
    LET f == fr[c]
    IN  /\ (f.op = "list_collections" /\ f.pc = "done")
             => /\ Len(f.log) = 1 /\ f.log[1].call = "list_collections"
                /\ f.status = "returned" => f.value = f.log[1].ret
                /\ ~IsNameList(f.log[1].ret) => f.status = "raised"
        /\ (/\ f.op \in {"create_collection", "drop_collection", "insert", "delete",
                         "full_text_search"}
            /\ Len(f.log) >= 1 /\ ~IsNameList(f.log[1].ret))
             => /\ f.pc = "done" /\ f.status = "raised"
                /\ Len(f.log) = 1

\* The script has run to completion: its last statement returned.
ScriptFinished ==
  /\ budget[Script] = 0
  /\ fr[Script].op = "drop_collection"
  /\ fr[Script].pc = "done" /\ fr[Script].status = "returned"

\* C20: whatever the remote held when the demo script started, the script
\* enters create_collection with the collection absent, so a create_collection
\* that returns has made the remote create, enters insert and
\* full_text_search with the collection present, so that an insert or a search
\* that returns has made its remote call, and when the script has run to
\* completion the remote does not hold the collection.
C20_ScriptCreatesUsesAndDrops ==
  LET f == fr[Script]
      n == collection_name.val
  IN  /\ f.op = "create_collection"
           => /\ n \notin start[Script].remote
              /\ f.status = "returned" => Calls(f, "create_collection") = 1
      /\ f.op = "insert"
           => /\ n \in start[Script].remote
              /\ f.status = "returned" => Calls(f, "insert") = 1
      /\ f.op = "full_text_search"
           => /\ n \in start[Script].remote
              /\ f.status = "returned" => Calls(f, "search") = 1
      /\ ScriptFinished => n \notin remote

C20_Witness ==
  /\ ScriptFinished
  /\ Calls(fr[Script], "drop_collection") = 1
  /\ prev[Script].op = "full_text_search" /\ prev[Script].status = "returned"
  /\ collection_name.val \notin remote

\* The names of the client calls of f, in the order they were made.
CallNames(f) == [j \in 1..Len(f.log) |-> f.log[j].call]

\* n times the call name x.
Times(n, x) == [j \in 1..n |-> x]

\* The client calls of a create_collection with arguments a that runs to its end.
CreateOrder(a) ==
  <<"list_collections", "create_schema">>
    \o Times(Len(a.field_params_list.items), "add_field")
    \o Times(Len(a.func_list.items), "add_function")
    \o <<"prepare_index_params">>
    \o Times(Len(a.index_params_list.items), "add_index")
    \o <<"create_collection", "list_collections">>

\* C21: in a create_collection whose guard found the name absent the client
\* calls are made in the order list_collections, create_schema with
\* enable_dynamic_field=True, add_field per field entry, add_function per
\* function, prepare_index_params, add_index per index entry,
\* create_collection, list_collections: the calls made so far are always an
\* initial part of that order, and all of it when the call returns.
C21_CreateCallOrder ==
  \A c \in Callers :
    LET f == fr[c]
    IN  (f.op = "create_collection" /\ AbsentAtGuard(f))
          => /\ IsPrefix(CallNames(f), CreateOrder(f.args))
             /\ \A j \in 1..Len(f.log) :
                  f.log[j].call = "create_schema" => f.log[j].a = <<PyBool("True")>>
             /\ f.status = "returned" => CallNames(f) = CreateOrder(f.args)

C21_Witness ==
  \E c \in Callers :
    /\ fr[c].op = "create_collection" /\ AbsentAtGuard(fr[c])
    /\ fr[c].status = "returned"
    /\ Len(fr[c].log) = 10
    /\ fr[c].log[5].call = "add_function" /\ fr[c].log[9].call = "create_collection"

\* C22: when an add_field, add_function or add_index call raises in
\* create_collection, that call is the last client call, so that no further
\* entry is submitted and the remote create is never invoked, the error is
\* raised to the caller, and the remote holds the collections it held.
C22_BuildFailureAborts ==
  \A c \in Callers :
    LET f == fr[c]
    IN  \A j \in 1..Len(f.log) :
          (/\ f.op = "create_collection"
           /\ f.log[j].call \in {"add_field", "add_function", "add_index"}
           /\ f.log[j].ret = Raised)
            => /\ j = Len(f.log)
               /\ Calls(f, "create_collection") = 0
               /\ f.pc = "done" /\ f.status = "raised" /\ f.err = "RemoteError"
               /\ remote = start[c].remote

C22_Witness ==
  \E c \in Callers :
    /\ fr[c].op = "create_collection" /\ fr[c].status = "raised"
    /\ Len(fr[c].log) = 5 /\ fr[c].log[5].call = "add_function"
    /\ fr[c].log[5].ret = Raised
    /\ Len(fr[c].args.index_params_list.items) = 2

\* The verdict of the argument validation of the facade call f.
ArgsVerdict(f) ==
  LET a == f.args
  IN  CASE f.op = "create_collection" ->
             CreateCollectionParams(a.name, a.field_params_list, a.func_list,
                                    a.index_params_list)
        [] f.op = "drop_collection" -> DropCollectionParams(a.name)
        [] f.op = "insert" -> InsertParams(a.name, a.data)
        [] f.op = "delete" -> DeleteParams(a.name, a.ids)
        [] f.op = "full_text_search" ->
             FullTextSearchParams(a.name, a.query_list, a.limit)
        [] OTHER -> "ok"

\* C23 as stated: a finished create_collection or drop_collection whose
\* remote create or drop returned has made exactly two list queries, and
\* every finished insert, delete and full_text_search, and every
\* create_collection and drop_collection that returned without its remote
\* call, exactly one.
C23_ListQueriesPerCall ==
  \A c \in Callers :
    LET f == fr[c]
    IN  f.pc = "done"
          => /\ (f.op \in {"create_collection", "drop_collection"}
                 /\ RemoteReturned(f, f.op))
                  => Calls(f, "list_collections") = 2
             /\ f.op \in {"insert", "delete", "full_text_search"}
                  => Calls(f, "list_collections") = 1
             /\ (f.op \in {"create_collection", "drop_collection"}
                 /\ f.status = "returned" /\ Calls(f, f.op) = 0)
                  => Calls(f, "list_collections") = 1

\* C23 amended: the count is two in a finished create_collection or
\* drop_collection whose remote create or drop returned, one in every
\* finished insert, delete and full_text_search whose arguments passed
\* validation and in every no-op branch of create_collection and
\* drop_collection, and zero in a call whose arguments failed validation.
C23_ListQueriesPerValidCall ==
  \A c \in Callers :
    LET f == fr[c]
    IN  (f.pc = "done" /\ f.op \in {"create_collection", "drop_collection", "insert",
                                    "delete", "full_text_search"})
          => /\ (f.op \in {"create_collection", "drop_collection"}
                 /\ RemoteReturned(f, f.op))
                  => Calls(f, "list_collections") = 2
             /\ (f.op \in {"insert", "delete", "full_text_search"}
                 /\ ArgsVerdict(f) = "ok")
                  => Calls(f, "list_collections") = 1
             /\ (f.op \in {"create_collection", "drop_collection"}
                 /\ f.status = "returned" /\ Calls(f, f.op) = 0)
                  => Calls(f, "list_collections") = 1
             /\ ArgsVerdict(f) # "ok" => Calls(f, "list_collections") = 0

C23_Witness ==
  \E c \in Callers :
    /\ fr[c].op = "drop_collection" /\ fr[c].pc = "done"
    /\ RemoteReturned(fr[c], "drop_collection")
    /\ Calls(fr[c], "list_collections") = 2
    /\ prev[c].op = "insert" /\ prev[c].status = "returned"
    /\ prev[c].name = fr[c].args.name

\* C24: full_text_search judges the shape of the result once the remote
\* search has returned it: a result that is not a SearchResult of HybridHits
\* of Hit makes the call raise and return nothing, and any other result is
\* returned as it was received.
C24_SearchResultValidated ==
  \A c \in Callers :
    LET f == fr[c]
        s == CallsOf(f, "search")
        r == s[1].ret
        shaped == /\ r.kind = "SearchResult"
                  /\ \A j \in 1..Len(r.items) :
                       /\ r.items[j].kind = "HybridHits"
                       /\ \A k \in 1..Len(r.items[j].items) :
                            r.items[j].items[k].kind = "Hit"
    IN  (f.op = "full_text_search" /\ Len(s) = 1 /\ r # Raised)
          => /\ f.pc = "done"
             /\ ~shaped => f.status = "raised" /\ f.err = "TypeError" /\ f.value = PyNone
             /\ shaped => f.status = "returned" /\ f.value = r

C24_Witness ==
  \E c \in Callers :
    /\ fr[c].op = "full_text_search" /\ fr[c].status = "raised"
    /\ Calls(fr[c], "search") = 1
    /\ fr[c].log[2].ret = V("SearchResult", "", <<V("HybridHits", "", <<PyDict("h")>>)>>)
    /\ prev[c].op = "full_text_search" /\ prev[c].status = "returned"
    /\ prev[c].name = fr[c].args.name

\* Caller c is in a call of op that follows a call of op on the same name
\* that returned normally, its arguments passed validation and its guard
\* was answered with a well-formed list of names.
Repeats(c, op) ==
  LET f == fr[c]
  IN  /\ f.op = op /\ prev[c].op = op
      /\ prev[c].name = f.args.name /\ prev[c].status = "returned"
      /\ ArgsVerdict(f) = "ok"
      /\ Len(f.log) >= 1 /\ ListCollectionsResults(f.log[1].ret) = "ok"

\* C25: with one caller, a create_collection that follows a create_collection
\* of the same name that returned normally finds the name present, does not
\* invoke the remote create, returns normally and leaves the remote
\* collection set as it was; a drop_collection that follows a drop_collection
\* of the same name likewise finds it absent and does not invoke the remote
\* drop.
C25_RepeatedCreateAndDropAreNoOps ==
  \A c \in Callers :
    LET f == fr[c]
    IN  /\ Repeats(c, "create_collection")
             => /\ GuardDecided(f, TRUE)
                /\ Calls(f, "create_collection") = 0
                /\ f.pc = "done" /\ f.status = "returned"
                /\ remote = start[c].remote
        /\ Repeats(c, "drop_collection")
             => /\ GuardDecided(f, FALSE)
                /\ Calls(f, "drop_collection") = 0
                /\ f.pc = "done" /\ f.status = "returned"
                /\ remote = start[c].remote

C25_Witness ==
  \E c \in Callers :
    /\ Repeats(c, "create_collection") /\ prev[c].acted
    /\ fr[c].args.name = PyStr("b") /\ remote = {"b"}
    /\ fr[c].status = "returned" /\ Len(fr[c].log) = 1

\* The client call that insert, delete and full_text_search guard.
GuardedCallOf(op) ==
  CASE op = "insert" -> "insert"
    [] op = "delete" -> "delete"
    [] op = "full_text_search" -> "search"
    [] OTHER -> "none"

\* Caller c passed its guard and stands before its remote insert, delete or search.
BeforeRemoteCall(c) == fr[c].pc \in {"in_insert", "de_delete", "se_search"}

\* C26: an insert, delete or full_text_search whose guard found the name
\* goes on to its remote call whatever another caller does to the collection
\* in between: it ends having made the call exactly once, and when the call
\* is made for a name the remote no longer holds, what the remote raises is
\* raised to the caller.
C26_GuardedCallAfterDrop ==
  /\ [](\A c \in Callers :
          LET f == fr[c]
              s == CallsOf(f, GuardedCallOf(f.op))
          IN  (f.op \in {"insert", "delete", "full_text_search"} /\ PresentAtGuard(f))
                => /\ BeforeRemoteCall(c) \/ f.pc = "done"
                   /\ f.pc = "done" => Len(s) = 1
                   /\ \A j \in 1..Len(s) :
                        s[j].ret = Raised => f.status = "raised" /\ f.err = "RemoteError")
  /\ [][\A c \in Callers :
          (/\ BeforeRemoteCall(c)
           /\ fr[c].args.name.val \notin remote
           /\ fr'[c] # fr[c])
            => /\ Calls(fr'[c], GuardedCallOf(fr[c].op)) = 1
               /\ fr'[c].status = "raised" /\ fr'[c].err = "RemoteError"]_vars

C26_Witness ==
  \E c, d \in Callers :
    /\ fr[c].op = "insert" /\ PresentAtGuard(fr[c]) /\ fr[c].pc = "in_insert"
    /\ fr[d].op = "drop_collection" /\ fr[d].args.name = fr[c].args.name
    /\ RemoteReturned(fr[d], "drop_collection")
    /\ fr[c].args.name.val \notin remote

\* C27: create_collection never invokes the remote drop and drop_collection
\* never invokes the remote create, and once the remote create or drop has
\* been issued the rest of the call, whatever its outcome, leaves the remote
\* collection set as that call left it.
C27_NoRecovery ==
  /\ [](\A c \in Callers :
          /\ fr[c].op = "create_collection" => Calls(fr[c], "drop_collection") = 0
          /\ fr[c].op = "drop_collection" => Calls(fr[c], "create_collection") = 0)
  /\ [][\A c \in Callers :
          (fr[c].pc \in {"cc_post", "dc_post"} /\ fr'[c] # fr[c]) => remote' = remote]_vars

C27_Witness ==
  \E c \in Callers :
    /\ fr[c].op = "create_collection" /\ fr[c].pc = "done" /\ fr[c].status = "raised"
    /\ RemoteReturned(fr[c], "create_collection")
    /\ Calls(fr[c], "list_collections") = 2
    /\ fr[c].args.name.val \notin start[c].remote
    /\ fr[c].args.name.val \in remote

\* C28: when the remote insert has returned an acknowledgment that is not a
\* mapping, insert raises, after the remote insert was made exactly once and
\* the delay applied, and the batch stays stored: the remote holds one batch
\* more than when the call began.
C28_InsertRaisesAfterStoring ==
  \A c \in Callers :
    LET f == fr[c]
        s == CallsOf(f, "insert")
        n == f.args.name.val
    IN  (f.op = "insert" /\ Len(s) >= 1 /\ s[1].ret # Raised /\ s[1].ret.kind # "dict")
          => /\ f.pc = "done" /\ f.status = "raised"
             /\ f.err \in {"TypeError", "ValidationError"}
             /\ Len(s) = 1 /\ f.slept = 1
             /\ rows[n] = start[c].rows[n] + 1

C28_Witness ==
  \E c \in Callers :
    /\ fr[c].op = "insert" /\ fr[c].status = "raised"
    /\ Calls(fr[c], "insert") = 1 /\ fr[c].log[2].ret = PyNone
    /\ prev[c].op = "insert" /\ prev[c].status = "returned"
    /\ prev[c].name = fr[c].args.name
    /\ rows[fr[c].args.name.val] = 2

\* C29: list_collections, insert, delete and full_text_search never invoke
\* the remote create or drop, and on every path the remote holds the same
\* collections as when the call began.
C29_ReadAndRowOperationsKeepCollections ==
  \A c \in Callers :
    LET f == fr[c]
    IN  f.op \in {"list_collections", "insert", "delete", "full_text_search"}
          => /\ Calls(f, "create_collection") = 0
             /\ Calls(f, "drop_collection") = 0
             /\ remote = start[c].remote

C29_Witness ==
  \E c \in Callers :
    /\ fr[c].op = "delete" /\ fr[c].pc = "done" /\ fr[c].status = "returned"
    /\ Calls(fr[c], "delete") = 1
    /\ prev[c].op = "insert" /\ prev[c].status = "returned"
    /\ prev[c].name = fr[c].args.name
    /\ remote = {"a", "b"}

\* C30: the post-checks judge by the re-listed names alone, whoever changed
\* them: a create_collection whose remote create returned raises the
\* not-in-list error when the re-listing lacks the name, as it does after
\* another caller's drop, and a drop_collection whose remote drop returned
\* raises the still-in-list error when the re-listing has the name, as it
\* does after another caller's create.
C30_PostCheckBlamesOwnCall ==
  \A c \in Callers :
    LET f == fr[c]
    IN  /\ (f.op = "create_collection" /\ PostCheckSaw(f, "create_collection", FALSE))
             => f.pc = "done" /\ f.status = "raised" /\ f.err = "ValueError"
        /\ (f.op = "drop_collection" /\ PostCheckSaw(f, "drop_collection", TRUE))
             => f.pc = "done" /\ f.status = "raised" /\ f.err = "ValueError"

\* One caller's create took effect (the other caller's guard found the name,
\* which the remote did not hold before), the other caller's remote drop
\* returned, and the first caller's post-check raised.
C30_Witness ==
  \E c, d \in Callers :
    /\ fr[c].op = "create_collection" /\ AbsentAtGuard(fr[c])
    /\ fr[c].args.name.val \notin start[c].remote
    /\ fr[d].op = "drop_collection" /\ fr[d].args.name = fr[c].args.name
    /\ PresentAtGuard(fr[d]) /\ RemoteReturned(fr[d], "drop_collection")
    /\ PostCheckSaw(fr[c], "create_collection", FALSE)
    /\ fr[c].status = "raised" /\ fr[c].err = "ValueError"

====
